---- MODULE Spec2Model ----
(***************************************************************************)
(* Model of the tempus time tracker (jakewilson/taevus).                   *)
(*                                                                         *)
(* src/src/main.rs   : one invocation = parse the optional date range,     *)
(*                     then run exactly one operation on the project.      *)
(* src/src/utils.rs  : date-range parser, clock/filesystem helpers.        *)
(* The session store and the aggregator (crate tempus_cli: do_session,     *)
(* delete_session, print_session_start, print_total_log_time, print_times) *)
(* are not part of the sources at hand; they are modelled from the         *)
(* specification's sections 4.2 - 4.4 on top of the helpers of utils.rs.   *)
(*                                                                         *)
(* Strings are sequences of one-character strings.  A DateTime<FixedOffset>*)
(* is [ts |-> seconds since the epoch, off |-> offset east of UTC in s].   *)
(* A SystemTime is [secs, sub]: whole seconds and the sub-second part.     *)
(***************************************************************************)
EXTENDS Integers, Sequences, FiniteSets, TLC

VARIABLES
    clock,      \* the system clock, a SystemTime
    tz,         \* offset of the local time zone, seconds east of UTC
    dir,        \* the project's directory: a set of entries [name, created]
    log,        \* the lines of the project's log file, oldest first
    out,        \* what the last invocation / store call reported, and
                \* whether the call before it was a successful discard
    pc,         \* racing callers of start_session: position of each
    res,        \* racing callers of start_session: result of each
    ntoggles,   \* toggles run since the project was last known in NoSession
    base,       \* Len(log) when ntoggles was last reset
    parse       \* the last call of parse_date_range: [arg, at, result]

vars == <<clock, tz, dir, log, out, pc, res, ntoggles, base, parse>>

(***************************************************************************)
(* Bounds of the model.                                                    *)
(***************************************************************************)
MaxSecs == 1        \* the clock runs over ClockStart .. ClockStart + MaxSecs
MaxLog == 2         \* a session is only ended while the log is shorter

\* sub-second positions of the clock within one second
SubSeconds == {0, 1}

TzOffsets == {0, -18000}

Callers == {1, 2}

SESSION_NAME == "session"

(***************************************************************************)
(* Strings.                                                                *)
(***************************************************************************)
Digits == <<"0", "1", "2", "3", "4", "5", "6", "7", "8", "9">>

IsDigit(c) == \E i \in 1..10 : Digits[i] = c

DigitVal(c) == (CHOOSE i \in 1..10 : Digits[i] = c) - 1

RECURSIVE ParseNat(_, _)
\* str::parse::<u32>() of a string of digits, most significant first
ParseNat(s, acc) ==
    IF s = <<>> THEN acc
    ELSE ParseNat(Tail(s), acc * 10 + DigitVal(Head(s)))

RECURSIVE SplitDots(_, _)
\* str::split("..") : the pieces between the non-overlapping occurrences of
\* "..", found left to right; cur is the piece being collected
SplitDots(s, cur) ==
    IF s = <<>> THEN <<cur>>
    ELSE IF Len(s) >= 2 /\ s[1] = "." /\ s[2] = "."
         THEN <<cur>> \o SplitDots(SubSeq(s, 3, Len(s)), <<>>)
         ELSE SplitDots(Tail(s), Append(cur, Head(s)))

(***************************************************************************)
(* Calendar (chrono).                                                      *)
(***************************************************************************)
IsLeap(y) == (y % 4 = 0 /\ y % 100 # 0) \/ y % 400 = 0

DaysInMonth(y, m) ==
    IF m = 2 THEN (IF IsLeap(y) THEN 29 ELSE 28)
    ELSE IF m \in {4, 6, 9, 11} THEN 30 ELSE 31

ValidYmd(y, m, d) == m \in 1..12 /\ d >= 1 /\ d <= DaysInMonth(y, m)

\* days from 1970-01-01 to y-m-d in the proleptic Gregorian calendar
DaysFromCivil(y, m, d) ==
    LET yy  == IF m <= 2 THEN y - 1 ELSE y
        era == yy \div 400
        yoe == yy - era * 400
        mp  == (m + 9) % 12
        doy == (153 * mp + 2) \div 5 + d - 1
        doe == yoe * 365 + yoe \div 4 - yoe \div 100 + doy
    IN  era * 146097 + doe - 719468

\* Local.ymd(y, m, d).and_hms(0, 0, 0) as a DateTime<FixedOffset>
LocalMidnight(y, m, d, off) ==
    [ts |-> DaysFromCivil(y, m, d) * 86400 - off, off |-> off]

NoDate == [ts |-> -1, off |-> 0]

\* 2021-12-01T00:00:00Z: midnight (UTC) of the tests' date, so that sessions
\* start at the upper bound of the range "2021-12-01" and just after it
ClockStart == DaysFromCivil(2021, 12, 1) * 86400

\* Utc.ymd(1970, 1, 1).and_hms(0, 0, 0)
get_start_date == [ts |-> 0, off |-> 0]

\* DateTime::from(Local::now()) at timestamp() resolution
LocalNow(t, off) == [ts |-> t.secs, off |-> off]

\* as system_time_to_datetime, but rounding to the nearest second upwards
system_time_to_datetime_rounded(time, off) ==
    [ts |-> IF time.sub > 0 THEN time.secs + 1 ELSE time.secs, off |-> off]

\* Local.timestamp(duration.as_secs(), 0): the sub-second part is dropped
system_time_to_datetime(time, off) == [ts |-> time.secs, off |-> off]

get_metadata_created(entry, off) == system_time_to_datetime(entry.created, off)

\* as get_length_hours, but with the two instants exchanged
get_length_hours_swapped(start, end) == start.ts - end.ts

\* end.timestamp() - start.timestamp(), the numerator of the hours (over 3600)
get_length_hours(start, end) == end.ts - start.ts

(***************************************************************************)
(* Date parser (utils.rs).  A result is [kind, from, to, msg, token]:      *)
(* kind "ok" is Ok(DateRange(from, to)), kind "err" is Err(msg), kind      *)
(* "panic" is a panic raised inside the parser, which unwinds through the  *)
(* caller (no Result reaches it).                                          *)
(***************************************************************************)
MatchesDateRegex(s) ==
    /\ Len(s) = 10
    /\ \A i \in {1, 2, 3, 4, 6, 7, 9, 10} : IsDigit(s[i])
    /\ s[5] = "-"
    /\ s[8] = "-"

\* [kind |-> "ok", date] or [kind |-> "panic", msg, token]
get_date_from_arg(date_arg, off) ==
    IF ~MatchesDateRegex(date_arg)
    THEN [kind |-> "panic", date |-> NoDate,
          msg |-> "is not a valid date", token |-> date_arg]
    ELSE LET year  == ParseNat(SubSeq(date_arg, 1, 4), 0)
             month == ParseNat(SubSeq(date_arg, 6, 7), 0)
             day   == ParseNat(SubSeq(date_arg, 9, 10), 0)
         IN  IF ValidYmd(year, month, day)
             THEN [kind |-> "ok", date |-> LocalMidnight(year, month, day, off),
                   msg |-> "", token |-> <<>>]
             ELSE [kind |-> "panic", date |-> NoDate,
                   msg |-> "No such local time", token |-> <<>>]

RangeOk(from, to) ==
    [kind |-> "ok", from |-> from, to |-> to, msg |-> "", token |-> <<>>]

RangeErr(msg) ==
    [kind |-> "err", from |-> NoDate, to |-> NoDate, msg |-> msg, token |-> <<>>]

RangePanic(d) ==
    [kind |-> "panic", from |-> NoDate, to |-> NoDate,
     msg |-> d.msg, token |-> d.token]

\* as RangeUpTo, but the date is the end of its day (and_hms(23, 59, 59))
RangeUpTo_endOfDay(tok, off) ==
    LET d == get_date_from_arg(tok, off)
    IN  IF d.kind = "ok"
        THEN RangeOk(get_start_date, [d.date EXCEPT !.ts = @ + 86399])
        ELSE RangePanic(d)

\* DateRange(start_date, get_date_from_arg(tok))
RangeUpTo(tok, off) ==
    LET d == get_date_from_arg(tok, off)
    IN  IF d.kind = "ok" THEN RangeOk(get_start_date, d.date) ELSE RangePanic(d)

\* as RangeSince, but up to midnight of the current day
RangeSince_midnight(tok, todays_date, off) ==
    LET d == get_date_from_arg(tok, off)
        local == todays_date.ts + off
    IN  IF d.kind = "ok"
        THEN RangeOk(d.date, [todays_date EXCEPT !.ts = @ - (local % 86400)])
        ELSE RangePanic(d)

\* DateRange(get_date_from_arg(tok), todays_date)
RangeSince(tok, todays_date, off) ==
    LET d == get_date_from_arg(tok, off)
    IN  IF d.kind = "ok" THEN RangeOk(d.date, todays_date) ELSE RangePanic(d)

\* as RangeBetween, but with the earlier date first
RangeBetween_ordered(tok0, tok1, off) ==
    LET d0 == get_date_from_arg(tok0, off)
        d1 == get_date_from_arg(tok1, off)
    IN  IF d0.kind # "ok" THEN RangePanic(d0)
        ELSE IF d1.kind # "ok" THEN RangePanic(d1)
        ELSE IF d0.date.ts <= d1.date.ts THEN RangeOk(d0.date, d1.date)
        ELSE RangeOk(d1.date, d0.date)

\* DateRange(get_date_from_arg(tok0), get_date_from_arg(tok1)), left first
RangeBetween(tok0, tok1, off) ==
    LET d0 == get_date_from_arg(tok0, off)
        d1 == get_date_from_arg(tok1, off)
    IN  IF d0.kind # "ok" THEN RangePanic(d0)
        ELSE IF d1.kind # "ok" THEN RangePanic(d1)
        ELSE RangeOk(d0.date, d1.date)

\* as parse_date_range, but what follows a second ".." is ignored
parse_date_range_firstTwo(date_range, now, off) ==
    LET dates       == SplitDots(date_range, <<>>)
        todays_date == LocalNow(now, off)
    IN  IF Len(dates) = 1 THEN RangeUpTo(dates[1], off)
        ELSE IF dates[1] = <<>> /\ dates[2] = <<>>
                 THEN RangeErr("Invalid date-range provided")
        ELSE IF dates[1] = <<>> THEN RangeUpTo(dates[2], off)
        ELSE IF dates[2] = <<>> THEN RangeSince(dates[1], todays_date, off)
        ELSE RangeBetween(dates[1], dates[2], off)

parse_date_range(date_range, now, off) ==
    LET dates       == SplitDots(date_range, <<>>)
        todays_date == LocalNow(now, off)
    IN  IF Len(dates) = 1 THEN RangeUpTo(dates[1], off)
        ELSE IF Len(dates) = 2
        THEN IF dates[1] = <<>> /\ dates[2] = <<>>
                 THEN RangeErr("Invalid date-range provided")
             ELSE IF dates[1] = <<>> THEN RangeUpTo(dates[2], off)
             ELSE IF dates[2] = <<>> THEN RangeSince(dates[1], todays_date, off)
             ELSE RangeBetween(dates[1], dates[2], off)
        ELSE RangeErr("Invalid date-range provided")

(***************************************************************************)
(* The date-range strings an invocation is given.                          *)
(***************************************************************************)
Dots == <<".", ".">>

D_2021_12_01 == <<"2", "0", "2", "1", "-", "1", "2", "-", "0", "1">>
D_2021_12_13 == <<"2", "0", "2", "1", "-", "1", "2", "-", "1", "3">>
D_2021_11_30 == <<"2", "0", "2", "1", "-", "1", "1", "-", "3", "0">>
D_2021_13_01 == <<"2", "0", "2", "1", "-", "1", "3", "-", "0", "1">>
D_2021_02_29 == <<"2", "0", "2", "1", "-", "0", "2", "-", "2", "9">>
D_2021_12_1  == <<"2", "0", "2", "1", "-", "1", "2", "-", "1">>
D_12_01      == <<"1", "2", "-", "0", "1">>
D_today      == <<"t", "o", "d", "a", "y">>

\* the strings that name a calendar day in the form the parser's pattern takes
ValidDates == {D_2021_12_01, D_2021_12_13, D_2021_11_30}

BadTokens == {D_2021_13_01, D_2021_02_29, D_2021_12_1, D_12_01, D_today, <<>>}

\* the date tokens of the documented grammar: 'today' | yyyy-mm-dd | mm-dd
GrammarDates == ValidDates \cup {D_today, D_12_01}

\* inputs with one separator at most and a token that is no date of the
\* grammar, each with that token
Malformed ==
    {<<D_2021_13_01, D_2021_13_01>>,
     <<D_2021_02_29, D_2021_02_29>>,
     <<D_2021_12_1, D_2021_12_1>>,
     <<Dots \o D_2021_13_01, D_2021_13_01>>,
     <<D_2021_12_1 \o Dots, D_2021_12_1>>,
     <<D_2021_02_29 \o Dots \o D_2021_12_01, D_2021_02_29>>,
     <<D_2021_12_01 \o Dots \o D_2021_12_1, D_2021_12_1>>}

\* strings with more than one ".." separator: "....", "2021-12-01....",
\* "..2021-12-01..", "2021-12-01..2021-12-13..", "2021-12-01....2021-12-13",
\* "2021-12-01..2021-12-13..2021-11-30", "today..today.."
TwoSeparators ==
    {Dots \o Dots,
     D_2021_12_01 \o Dots \o Dots,
     Dots \o D_2021_12_01 \o Dots,
     D_2021_12_01 \o Dots \o D_2021_12_13 \o Dots,
     D_2021_12_01 \o Dots \o Dots \o D_2021_12_13,
     D_2021_12_01 \o Dots \o D_2021_12_13 \o Dots \o D_2021_11_30,
     D_today \o Dots \o D_today \o Dots}

RangeInputs ==
    ValidDates
    \cup {Dots \o D : D \in ValidDates}
    \cup {D \o Dots : D \in ValidDates}
    \cup {D1 \o Dots \o D2 : D1 \in ValidDates, D2 \in ValidDates}
    \cup (BadTokens \ {<<>>})
    \cup {Dots \o D : D \in {D_today, D_12_01, D_2021_13_01}}
    \cup {D_today \o Dots, D_2021_02_29 \o Dots \o D_2021_12_01,
          D_2021_12_01 \o Dots \o D_12_01}
    \cup {<<>>, Dots, <<".", ".", ".">>}
    \cup TwoSeparators
    \cup {T \o Dots : T \in {D_today, D_12_01}}
    \cup {D_today \o Dots \o D_12_01, D_12_01 \o Dots \o D_2021_12_13}
    \cup {m[1] : m \in Malformed}

\* Option::None of the optional date-range argument
None == <<"none">>

(***************************************************************************)
(* Filesystem helpers (utils.rs).                                          *)
(***************************************************************************)
\* time.to_rfc3339(): the wall-clock reading at the offset, and the offset
format_datetime(time) == [wall |-> time.ts + time.off, off |-> time.off]

\* DateTime::parse_from_rfc3339
datetime_from_str(str) == [ts |-> str.wall - str.off, off |-> str.off]

\* as create_or_open_file, but a new entry is made on every call
create_or_open_file_always(d, path, t) ==
    d \cup {[name |-> path, created |-> t]}

\* OpenOptions::new().create(true).append(true).open(path): the file is
\* created when no entry has the name, and opened as it is otherwise (never
\* an error for an existing file, never a second entry, never truncated)
create_or_open_file(d, path, t) ==
    IF \E e \in d : e.name = path
    THEN d
    ELSE d \cup {[name |-> path, created |-> t]}

(***************************************************************************)
(* Session store (specification 4.2), on the helpers above.  An operation  *)
(* yields [dir, log, result, value, list]: the directory and the log after *)
(* it, what it reports, the number it reports (a timestamp or seconds) and *)
(* the records it lists.                                                   *)
(***************************************************************************)
Markers(d) == {e \in d : e.name = SESSION_NAME}

has_open_session(d) == Markers(d) # {}

\* the start instant of the open session: the marker's creation time
session_start(d, off) ==
    get_metadata_created(CHOOSE e \in Markers(d) : TRUE, off)

remove_marker(d) == d \ Markers(d)

Outcome(d, l, result, value) ==
    [dir |-> d, log |-> l, result |-> result, value |-> value, list |-> <<>>]

start_session(d, l, now, off) ==
    IF has_open_session(d)
    THEN Outcome(d, l, "AlreadyOpenError", 0)
    ELSE LET d2 == create_or_open_file(d, SESSION_NAME, now)
         IN  Outcome(d2, l, "started", session_start(d2, off).ts)

\* the line appended to the log for the interval (start, end)
SessionRecord(start, end) ==
    [start |-> format_datetime(start), end |-> format_datetime(end)]

\* as append_to_file, but the file is truncated when it is opened
append_to_file_truncating(content, line) == <<line>>

\* a write to a file opened by create_or_open_file (utils.rs 63-69,
\* .append(true)): the line goes after the content the file has
append_to_file(content, line) == Append(content, line)

end_session(d, l, now, off) ==
    IF ~has_open_session(d)
    THEN Outcome(d, l, "NoOpenSessionError", 0)
    ELSE LET start == session_start(d, off)
             end   == LocalNow(now, off)
         IN  Outcome(remove_marker(d),
                     append_to_file(l, SessionRecord(start, end)),
                     "ended", get_length_hours(start, end))

discard_open_session(d, l) ==
    IF ~has_open_session(d)
    THEN Outcome(d, l, "NoOpenSessionError", 0)
    ELSE Outcome(remove_marker(d), l, "discarded", 0)

\* read_log: the closed records, parsed back from the lines
read_log(l) ==
    [i \in 1..Len(l) |-> [start |-> datetime_from_str(l[i].start),
                          end   |-> datetime_from_str(l[i].end)]]

(***************************************************************************)
(* Aggregator (specification 4.3).  A range is a parser result of kind     *)
(* "ok", or NoRange when the invocation has no date range.                 *)
(***************************************************************************)
NoRange == [kind |-> "none", from |-> NoDate, to |-> NoDate,
            msg |-> "", token |-> <<>>]

Included(r, range) ==
    \/ range.kind = "none"
    \/ (range.from.ts <= r.start.ts /\ r.start.ts <= range.to.ts)

RECURSIVE list_sessions(_, _)
list_sessions(records, range) ==
    IF records = <<>> THEN <<>>
    ELSE (IF Included(Head(records), range) THEN <<Head(records)>> ELSE <<>>)
         \o list_sessions(Tail(records), range)

RECURSIVE SumLengths(_)
SumLengths(records) ==
    IF records = <<>> THEN 0
    ELSE get_length_hours(Head(records).start, Head(records).end)
         + SumLengths(Tail(records))

\* the total, as the number of seconds that is divided by 3600
total_hours(records, range) == SumLengths(list_sessions(records, range))

(***************************************************************************)
(* Session controller (specification 4.4): the operations main selects.    *)
(***************************************************************************)
\* toggle
do_session(d, l, now, off) ==
    IF has_open_session(d)
    THEN end_session(d, l, now, off)
    ELSE start_session(d, l, now, off)

\* discard
delete_session(d, l) ==
    LET r == discard_open_session(d, l)
    IN  IF r.result = "NoOpenSessionError"
        THEN Outcome(d, l, "no active session", 0)
        ELSE r

\* report start
print_session_start(d, l, off) ==
    IF has_open_session(d)
    THEN Outcome(d, l, "session start", session_start(d, off).ts)
    ELSE Outcome(d, l, "no active session", 0)

\* report hours
print_total_log_time(d, l, range) ==
    Outcome(d, l, "total hours", total_hours(read_log(l), range))

\* list times
print_times(d, l, range) ==
    LET sessions == list_sessions(read_log(l), range)
    IN  [dir |-> d, log |-> l, result |-> "times", value |-> Len(sessions),
         list |-> sessions]

(***************************************************************************)
(* main (main.rs).                                                         *)
(***************************************************************************)
\* as ParseArg, but an Err of the parser is taken as "no date range"
ParseArg_errIsNone(dr, now, off) ==
    IF dr = None THEN [kind |-> "none", from |-> NoDate, to |-> NoDate,
                       msg |-> "", token |-> <<>>]
    ELSE LET r == parse_date_range(dr, now, off)
         IN  IF r.kind = "err"
             THEN [kind |-> "none", from |-> NoDate, to |-> NoDate,
                   msg |-> "", token |-> <<>>]
             ELSE r

\* main.rs 13-19: Some(range) is parsed, and an Err panics; None stays None
ParseArg(dr, now, off) ==
    IF dr = None THEN NoRange
    ELSE LET r == parse_date_range(dr, now, off)
         IN  IF r.kind = "err"
             THEN [r EXCEPT !.kind = "panic"]
             ELSE r

\* as Operation, but without the branch of the delete flag
Operation_noDelete(hours, start, times, delete) ==
    IF hours THEN "hours"
    ELSE IF start THEN "start"
    ELSE IF times THEN "times"
    ELSE "toggle"

\* as Operation, but with the delete flag tested first
Operation_deleteFirst(hours, start, times, delete) ==
    IF delete THEN "delete"
    ELSE IF hours THEN "hours"
    ELSE IF start THEN "start"
    ELSE IF times THEN "times"
    ELSE "toggle"

\* main.rs 21-31: the operation the flags select
Operation(hours, start, times, delete) ==
    IF hours THEN "hours"
    ELSE IF start THEN "start"
    ELSE IF times THEN "times"
    ELSE IF delete THEN "delete"
    ELSE "toggle"

\* as Dispatch, but with the calls of the last two branches exchanged
Dispatch_swapped(op, d, l, range, now, off) ==
    IF op = "hours" THEN print_total_log_time(d, l, range)
    ELSE IF op = "start" THEN print_session_start(d, l, off)
    ELSE IF op = "times" THEN print_times(d, l, range)
    ELSE IF op = "delete" THEN do_session(d, l, now, off)
    ELSE delete_session(d, l)

\* as Dispatch, but the start flag calls the toggle
Dispatch_startStarts(op, d, l, range, now, off) ==
    IF op = "hours" THEN print_total_log_time(d, l, range)
    ELSE IF op = "start" THEN do_session(d, l, now, off)
    ELSE IF op = "times" THEN print_times(d, l, range)
    ELSE IF op = "delete" THEN delete_session(d, l)
    ELSE do_session(d, l, now, off)

\* as Dispatch, but list times is called without the date range
Dispatch_noRange(op, d, l, range, now, off) ==
    IF op = "hours" THEN print_total_log_time(d, l, range)
    ELSE IF op = "start" THEN print_session_start(d, l, off)
    ELSE IF op = "times" THEN print_times(d, l, NoRange)
    ELSE IF op = "delete" THEN delete_session(d, l)
    ELSE do_session(d, l, now, off)

\* main.rs 21-31: the call of the selected operation
Dispatch(op, d, l, range, now, off) ==
    IF op = "hours" THEN print_total_log_time(d, l, range)
    ELSE IF op = "start" THEN print_session_start(d, l, off)
    ELSE IF op = "times" THEN print_times(d, l, range)
    ELSE IF op = "delete" THEN delete_session(d, l)
    ELSE do_session(d, l, now, off)

(***************************************************************************)
(* State machine.                                                          *)
(***************************************************************************)
\* the date-range arguments given to invocations: absent, "2021-12-01" (up
\* to that midnight), "2021-12-13.." (from a day yet to come), one for which
\* the parser returns Err and one on which it panics
InvocationRanges ==
    {None, D_2021_12_01, D_2021_12_13 \o Dots, Dots, D_2021_13_01}

NoParse == [arg |-> None, at |-> [secs |-> 0, sub |-> 0], result |-> NoRange]

Init ==
    /\ clock = [secs |-> ClockStart, sub |-> 0]
    /\ tz = 0
    /\ dir = {}
    /\ log = <<>>
    /\ out = [op |-> "none", result |-> "none", value |-> 0, list |-> <<>>,
              afterDiscard |-> FALSE]
    /\ pc = [c \in Callers |-> "idle"]
    /\ res = [c \in Callers |-> "none"]
    /\ ntoggles = 0
    /\ base = 0
    /\ parse = NoParse

NoRace == \A c \in Callers : pc[c] = "idle"

\* the bookkeeping of the toggle count after an operation that left d2, l2:
\* a toggle counts while the count has a NoSession state to count from; any
\* other change of the store restarts the count at the next NoSession state
Count(isToggle, d2, l2) ==
    IF isToggle /\ ntoggles >= 0
        THEN /\ ntoggles' = ntoggles + 1
             /\ base' = base
    ELSE IF d2 = dir /\ l2 = log
        THEN UNCHANGED <<ntoggles, base>>
    ELSE IF has_open_session(d2)
        THEN /\ ntoggles' = -1
             /\ base' = base
    ELSE /\ ntoggles' = 0
         /\ base' = Len(l2)

\* the store is left as the operation left it, and its report is shown
Apply(op, r, isToggle) ==
    /\ Len(r.log) <= MaxLog
    /\ dir' = r.dir
    /\ log' = r.log
    /\ out' = [op |-> op, result |-> r.result, value |-> r.value,
               list |-> r.list,
               afterDiscard |-> out.result = "discarded"]
    /\ Count(isToggle, r.dir, r.log)

\* one run of the program (main.rs 7-32)
main(hours, start, times, delete, dr) ==
    LET date_range == ParseArg(dr, clock, tz)
        op         == Operation(hours, start, times, delete)
    IN  /\ NoRace
        /\ IF date_range.kind = "panic"
           THEN /\ out' = [op |-> op, result |-> "panic", value |-> 0,
                           list |-> <<>>,
                           afterDiscard |-> out.result = "discarded"]
                /\ UNCHANGED <<dir, log, ntoggles, base>>
           ELSE Apply(op, Dispatch(op, dir, log, date_range, clock, tz),
                      op = "toggle")
        /\ UNCHANGED <<clock, tz, pc, res, parse>>

\* the operations that read the date range (main.rs 21-31: only
\* print_total_log_time and print_times are passed date_range)
RangeReaders == {"hours", "times"}

\* the command lines that are run: every combination of the four flags
\* without a date range, each single operation with each date range that
\* fails to parse, and each range-reading operation with each date range
CommandLines ==
    {<<h, s, t, x, None>> : h \in BOOLEAN, s \in BOOLEAN, t \in BOOLEAN,
                           x \in BOOLEAN}
    \cup {<<f = "hours", f = "start", f = "times", f = "delete", dr>> :
              f \in {"hours", "start", "times", "delete", "toggle"},
              dr \in {Dots, D_2021_13_01}}
    \cup {<<f = "hours", f = "start", f = "times", f = "delete", dr>> :
              f \in RangeReaders, dr \in InvocationRanges}

Invocation ==
    \E args \in CommandLines :
        main(args[1], args[2], args[3], args[4], args[5])

\* the session store called directly
StartSession ==
    /\ NoRace
    /\ Apply("start_session", start_session(dir, log, clock, tz), FALSE)
    /\ UNCHANGED <<clock, tz, pc, res, parse>>

EndSession ==
    /\ NoRace
    /\ Apply("end_session", end_session(dir, log, clock, tz), FALSE)
    /\ UNCHANGED <<clock, tz, pc, res, parse>>

DiscardOpenSession ==
    /\ NoRace
    /\ Apply("discard_open_session", discard_open_session(dir, log), FALSE)
    /\ UNCHANGED <<clock, tz, pc, res, parse>>

\* time passes
Tick ==
    /\ IF clock.sub + 1 \in SubSeconds
       THEN clock' = [clock EXCEPT !.sub = clock.sub + 1]
       ELSE /\ clock.secs < ClockStart + MaxSecs
            /\ clock' = [secs |-> clock.secs + 1, sub |-> 0]
    /\ UNCHANGED <<tz, dir, log, out, pc, res, ntoggles, base, parse>>

Next ==
    \/ Invocation
    \/ StartSession
    \/ EndSession
    \/ DiscardOpenSession
    \/ Tick

Spec == Init /\ [][Next]_vars

(***************************************************************************)
(* Two invocations that call start_session at once: each checks for the    *)
(* marker and then creates it, and the steps interleave.                   *)
(***************************************************************************)
BeginRace ==
    /\ NoRace
    /\ ~has_open_session(dir)
    /\ pc' = [c \in Callers |-> "check"]
    /\ res' = [c \in Callers |-> "none"]
    /\ UNCHANGED <<clock, tz, dir, log, out, ntoggles, base, parse>>

RaceCheck(c) ==
    /\ pc[c] = "check"
    /\ IF has_open_session(dir)
       THEN /\ pc' = [pc EXCEPT ![c] = "done"]
            /\ res' = [res EXCEPT ![c] = "AlreadyOpenError"]
       ELSE /\ pc' = [pc EXCEPT ![c] = "create"]
            /\ res' = res
    /\ UNCHANGED <<clock, tz, dir, log, out, ntoggles, base, parse>>

RaceCreate(c) ==
    /\ pc[c] = "create"
    /\ dir' = create_or_open_file(dir, SESSION_NAME, clock)
    /\ pc' = [pc EXCEPT ![c] = "done"]
    /\ res' = [res EXCEPT ![c] = "started"]
    /\ UNCHANGED <<clock, tz, log, out, ntoggles, base, parse>>

RaceDone == \A c \in Callers : pc[c] = "done"

\* both invocations have exited
EndRace ==
    /\ RaceDone
    /\ pc' = [c \in Callers |-> "idle"]
    /\ res' = [c \in Callers |-> "none"]
    /\ ntoggles' = -1
    /\ UNCHANGED <<clock, tz, dir, log, out, base, parse>>

NextRace ==
    \/ Next
    \/ BeginRace
    \/ \E c \in Callers : RaceCheck(c)
    \/ \E c \in Callers : RaceCreate(c)
    \/ EndRace

SpecRace == Init /\ [][NextRace]_vars

(***************************************************************************)
(* end_session step by step (specification 4.2): the record is appended    *)
(* to the log, then the marker is cleared.  The run can fail at the append *)
(* or stop between the two steps; a stopped run is followed by a retry.    *)
(* pc[1] is the position of the run, res[1] tells a repeated append.       *)
(***************************************************************************)
EndAppend ==
    /\ pc[1] \in {"idle", "stopped"}
    /\ \A c \in Callers \ {1} : pc[c] = "idle"
    /\ has_open_session(dir)
    /\ Len(log) < MaxLog
    /\ log' = append_to_file(log, SessionRecord(session_start(dir, tz),
                                                LocalNow(clock, tz)))
    /\ pc' = [pc EXCEPT ![1] = "clear"]
    /\ res' = [res EXCEPT ![1] = IF pc[1] = "stopped" THEN "again"
                                 ELSE "none"]
    /\ UNCHANGED <<clock, tz, dir, out, ntoggles, base, parse>>

\* the append fails: the error is reported and nothing is written
EndAppendFails ==
    /\ NoRace
    /\ has_open_session(dir)
    /\ out' = [op |-> "end_session", result |-> "StorageIOError",
               value |-> 0, list |-> <<>>, afterDiscard |-> FALSE]
    /\ UNCHANGED <<clock, tz, dir, log, pc, res, ntoggles, base, parse>>

EndClear ==
    /\ pc[1] = "clear"
    /\ dir' = remove_marker(dir)
    /\ out' = [op |-> "end_session", result |-> "ended",
               value |-> get_length_hours(
                             datetime_from_str(log[Len(log)].start),
                             datetime_from_str(log[Len(log)].end)),
               list |-> <<>>, afterDiscard |-> FALSE]
    /\ pc' = [pc EXCEPT ![1] = "idle"]
    /\ res' = [res EXCEPT ![1] = "none"]
    /\ UNCHANGED <<clock, tz, log, ntoggles, base, parse>>

\* the process stops after the append and before the marker is cleared
EndCrash ==
    /\ pc[1] = "clear"
    /\ pc' = [pc EXCEPT ![1] = "stopped"]
    /\ UNCHANGED <<clock, tz, dir, log, out, res, ntoggles, base, parse>>

NextCrash ==
    \/ StartSession
    \/ DiscardOpenSession
    \/ Tick
    \/ EndAppend
    \/ EndAppendFails
    \/ EndClear
    \/ EndCrash

SpecCrash == Init /\ [][NextCrash]_vars

(***************************************************************************)
(* The date parser on its own: parse_date_range applied to every input.    *)
(***************************************************************************)
ParseCall ==
    \E dr \in RangeInputs :
        /\ parse' = [arg |-> dr, at |-> clock,
                     result |-> parse_date_range(dr, clock, tz)]
        /\ UNCHANGED <<clock, tz, dir, log, out, pc, res, ntoggles, base>>

InitParse ==
    /\ clock = [secs |-> ClockStart, sub |-> 0]
    /\ tz \in TzOffsets
    /\ dir = {}
    /\ log = <<>>
    /\ out = [op |-> "none", result |-> "none", value |-> 0, list |-> <<>>,
              afterDiscard |-> FALSE]
    /\ pc = [c \in Callers |-> "idle"]
    /\ res = [c \in Callers |-> "none"]
    /\ ntoggles = 0
    /\ base = 0
    /\ parse = NoParse

NextParse ==
    \/ ParseCall
    \/ Tick

SpecParse == InitParse /\ [][NextParse]_vars

(***************************************************************************)
(* Properties.                                                             *)
(***************************************************************************)
\* steps of the toggle, of the discard and of ending a session, by any
\* command line that selects them or by the direct call of the store (the
\* operation shown in out' is tested first: it is what main has set)
ParsedOk(dr) == ParseArg(dr, clock, tz).kind # "panic"

ToggleStep ==
    /\ out'.op = Operation(FALSE, FALSE, FALSE, FALSE)
    /\ \E dr \in InvocationRanges :
          ParsedOk(dr) /\ main(FALSE, FALSE, FALSE, FALSE, dr)

DiscardStep ==
    \/ (out'.op = "discard_open_session" /\ DiscardOpenSession)
    \/ /\ out'.op = Operation(FALSE, FALSE, FALSE, TRUE)
       /\ \E dr \in InvocationRanges :
             ParsedOk(dr) /\ main(FALSE, FALSE, FALSE, TRUE, dr)

EndStep ==
    \/ (out'.op = "end_session" /\ EndSession)
    \/ (has_open_session(dir) /\ ToggleStep)

\* C1: in every reachable state, also during two racing starts, the project
\* has at most one open-session marker, hence at most one start instant.
C1_AtMostOneOpenSession == Cardinality(Markers(dir)) <= 1

\* a session is open again after an earlier one was closed and recorded
C1_Witness ==
    /\ Cardinality(Markers(dir)) = 1
    /\ Len(log) >= 1
    /\ out.result = "started"

\* C2: when two racing calls of start_session on a project without a session
\* have both returned, exactly one of them has succeeded and the other has
\* observed AlreadyOpenError, and there is at most one marker.
C2_ExactlyOneStartSucceeds ==
    RaceDone =>
        /\ \E c \in Callers :
              /\ res[c] = "started"
              /\ \A o \in Callers \ {c} : res[o] = "AlreadyOpenError"
        /\ Cardinality(Markers(dir)) <= 1

\* C3: a toggle from NoSession opens a session and leaves the log as it is, a
\* toggle from OpenSession closes it and adds exactly one record to the log;
\* and after n toggles counted from a NoSession state the log has gained
\* n div 2 records and a session is open iff n is odd.
C3_ToggleCount ==
    ntoggles >= 0 =>
        /\ Len(log) = base + (ntoggles \div 2)
        /\ has_open_session(dir) <=> (ntoggles % 2 = 1)

C3_ToggleAlternates ==
    /\ [](C3_ToggleCount)
    /\ [][ToggleStep =>
            IF has_open_session(dir)
            THEN /\ ~has_open_session(dir')
                 /\ Len(log') = Len(log) + 1
                 /\ SubSeq(log', 1, Len(log)) = log
            ELSE /\ has_open_session(dir')
                 /\ log' = log]_vars

\* four toggles in a row from NoSession: two records gained, no session open
C3_Witness ==
    /\ ntoggles = 4
    /\ Len(log) = base + 2
    /\ ~has_open_session(dir)
    /\ out.op = "toggle"

\* C4: ending a session while one is open appends exactly one record, whose
\* start is the start instant of the marker (the whole second of its creation)
\* and whose end is the current instant, with end >= start, and no session is
\* open afterwards; end_session without an open session fails with
\* NoOpenSessionError and appends nothing.
C4_EndSession ==
    [][EndStep =>
        IF has_open_session(dir)
        THEN LET marker == CHOOSE e \in Markers(dir) : TRUE
                 rec    == read_log(log')[Len(log')]
             IN  /\ Len(log') = Len(log) + 1
                 /\ SubSeq(log', 1, Len(log)) = log
                 /\ rec.start.ts = marker.created.secs
                 /\ rec.end.ts = clock.secs
                 /\ rec.end.ts >= rec.start.ts
                 /\ ~has_open_session(dir')
        ELSE /\ out'.result = "NoOpenSessionError"
             /\ log' = log
             /\ dir' = dir]_vars

\* a session has been ended in a later second than it was started in
C4_Witness ==
    /\ out.result = "ended"
    /\ out.value > 0
    /\ Len(log) >= 1
    /\ ~has_open_session(dir)

\* C5: a discard while a session is open removes the marker and leaves the
\* log exactly as it was.
C5_DiscardKeepsLog ==
    [][(DiscardStep /\ has_open_session(dir)) =>
        (~has_open_session(dir') /\ log' = log)]_vars

\* a session was discarded on a project that has a closed record
C5_Witness ==
    /\ out.result = "discarded"
    /\ out.op = "delete"
    /\ Len(log) >= 1
    /\ ~has_open_session(dir)

\* C6: a discard while a session is open succeeds; a discard that follows a
\* successful discard fails with NoOpenSessionError (the program reports "no
\* active session" and does not abort) and changes neither marker nor log.
C6_SecondDiscardFails ==
    [][DiscardStep =>
        /\ has_open_session(dir) => out'.result = "discarded"
        /\ out.result = "discarded" =>
              /\ out'.result \in {"NoOpenSessionError", "no active session"}
              /\ out'.op = "delete" => out'.result = "no active session"
              /\ dir' = dir
              /\ log' = log]_vars

\* the program was asked to discard twice in a row on a project with a
\* closed record: the first discard succeeded, the second found no session
C6_Witness ==
    /\ out.op = "delete"
    /\ out.afterDiscard
    /\ out.result = "no active session"
    /\ Len(log) >= 1

\* C7: an invocation whose date range does not parse (the parser returns Err,
\* or panics on a token) changes neither the marker nor the log, whichever
\* operation its flags select: no step that changes the marker or the log is
\* the run of a command line with such a date range.
ParseFails(dr) ==
    dr # None /\ parse_date_range(dr, clock, tz).kind # "ok"

C7_ParseFailureAborts ==
    [][(dir' # dir \/ log' # log) =>
          \A dr \in InvocationRanges :
              ParseFails(dr) =>
                  \A args \in CommandLines :
                      args[5] = dr =>
                          ~main(args[1], args[2], args[3], args[4], dr)]_vars

\* a toggle with a bad date range was aborted while a session is open
C7_Witness ==
    /\ out.op = "toggle"
    /\ out.result = "panic"
    /\ has_open_session(dir)
    /\ Len(log) >= 1

\* midnight UTC of the valid dates, as seconds since the epoch
MidnightUtc(D) ==
    IF D = D_2021_12_01 THEN 1638316800
    ELSE IF D = D_2021_12_13 THEN 1639353600
    ELSE 1638230400

\* local midnight of day D in the zone whose offset is off
Midnight(D, off) == MidnightUtc(D) - off

\* C8: for every valid date D, both D and ".." + D parse to the range from
\* the epoch (1970-01-01 00:00:00 UTC) to local midnight of D.
C8_SingleDate ==
    \A D \in ValidDates :
        parse.arg \in {D, Dots \o D} =>
            /\ parse.result.kind = "ok"
            /\ parse.result.from.ts = 0
            /\ parse.result.to.ts = Midnight(D, tz)

\* "..2021-12-13" was parsed west of Greenwich
C8_Witness ==
    /\ parse.arg = Dots \o D_2021_12_13
    /\ parse.result.kind = "ok"
    /\ tz < 0

\* C9: for every valid date D, D + ".." parses to the range from local
\* midnight of D to the instant of the call.
C9_StartOnly ==
    \A D \in ValidDates :
        parse.arg = D \o Dots =>
            /\ parse.result.kind = "ok"
            /\ parse.result.from.ts = Midnight(D, tz)
            /\ parse.result.to.ts = parse.at.secs

\* "2021-11-30.." was parsed at a time of day that is not local midnight,
\* and the clock has moved on since
C9_Witness ==
    /\ parse.arg = D_2021_11_30 \o Dots
    /\ parse.result.kind = "ok"
    /\ (parse.at.secs + tz) % 86400 # 0
    /\ clock.secs > parse.at.secs

\* C10: for all valid dates D1 and D2, D1 + ".." + D2 parses to the range from
\* local midnight of D1 to local midnight of D2, in that order, also when D1
\* is the later day.
C10_BothDates ==
    \A D1 \in ValidDates, D2 \in ValidDates :
        parse.arg = D1 \o Dots \o D2 =>
            /\ parse.result.kind = "ok"
            /\ parse.result.from.ts = Midnight(D1, tz)
            /\ parse.result.to.ts = Midnight(D2, tz)

\* a range whose first date is the later one was parsed
C10_Witness ==
    /\ parse.arg = D_2021_12_13 \o Dots \o D_2021_12_01
    /\ parse.result.kind = "ok"
    /\ parse.result.from.ts > parse.result.to.ts

\* C11: the input ".." and every input with more than one ".." separator
\* make the parser return the error "Invalid date-range provided": neither a
\* range nor a panic.
C11_InvalidSeparators ==
    parse.arg \in ({Dots} \cup TwoSeparators) =>
        /\ parse.result.kind = "err"
        /\ parse.result.msg = "Invalid date-range provided"
        /\ parse.result.from = NoDate
        /\ parse.result.to = NoDate

\* "2021-12-01..2021-12-13.." was parsed
C11_Witness ==
    /\ parse.arg = D_2021_12_01 \o Dots \o D_2021_12_13 \o Dots
    /\ parse.result.kind = "err"

\* local midnight of the day that a token of the grammar names, for a parse
\* at parse.at: the current day for 'today', the current year (2021 over the
\* whole run of the clock) for mm-dd
TokenMidnight(T) ==
    IF T = D_today THEN parse.at.secs - ((parse.at.secs + tz) % 86400)
    ELSE IF T = D_12_01 THEN Midnight(D_2021_12_01, tz)
    ELSE Midnight(T, tz)

\* C12: every date token of the grammar ('today', yyyy-mm-dd, mm-dd) is
\* accepted in every position of a range and resolves to local midnight of
\* its day.
C12_EveryDateToken ==
    \A T \in GrammarDates :
        /\ parse.arg \in {T, Dots \o T} =>
              /\ parse.result.kind = "ok"
              /\ parse.result.to.ts = TokenMidnight(T)
        /\ parse.arg = T \o Dots =>
              /\ parse.result.kind = "ok"
              /\ parse.result.from.ts = TokenMidnight(T)
        /\ \A U \in GrammarDates :
              parse.arg = T \o Dots \o U =>
                  /\ parse.result.kind = "ok"
                  /\ parse.result.from.ts = TokenMidnight(T)
                  /\ parse.result.to.ts = TokenMidnight(U)

\* C13: an input with a malformed date token makes the parser return an
\* error to its caller that names the token; it does not panic and returns
\* no range.
C13_MalformedTokenIsError ==
    \A m \in Malformed :
        parse.arg = m[1] =>
            /\ parse.result.kind = "err"
            /\ parse.result.token = m[2]

\* the closed records as the lines of the log hold them, instants as
\* whole seconds since the epoch
StoredRecords ==
    [i \in 1..Len(log) |->
        [start |-> [ts |-> log[i].start.wall - log[i].start.off,
                    off |-> log[i].start.off],
         end   |-> [ts |-> log[i].end.wall - log[i].end.off,
                    off |-> log[i].end.off]]]

\* whether the instant t lies in the range the argument dr stands for:
\* "2021-12-01" is the epoch up to that midnight, "2021-12-13.." is that
\* midnight up to now, and no argument is no range
InArgRange(dr, t) ==
    IF dr = D_2021_12_01 THEN 0 <= t /\ t <= Midnight(D_2021_12_01, tz)
    ELSE IF dr = D_2021_12_13 \o Dots
         THEN Midnight(D_2021_12_13, tz) <= t /\ t <= clock.secs
    ELSE TRUE

RangeArgs == {None, D_2021_12_01, D_2021_12_13 \o Dots}

TimesStep(dr) ==
    /\ out'.op = "times"
    /\ main(FALSE, FALSE, TRUE, FALSE, dr)

\* C14: list times reports, in log order, exactly the records whose start
\* lies in [from, to] (bounds included), whatever their end; without a
\* range it reports every record.
C14_RangeFilter ==
    [][\A dr \in RangeArgs :
          TimesStep(dr) =>
              LET InRange(r) == InArgRange(dr, r.start.ts)
              IN  out'.list = SelectSeq(StoredRecords, InRange)]_vars

\* list times with "2021-12-01" reported the record that started exactly at
\* that midnight and ended after it, and left out the one that started one
\* second later
C14_Witness ==
    /\ out.op = "times"
    /\ Len(log) = 2
    /\ Len(out.list) = 1
    /\ out.list[1].start.ts = Midnight(D_2021_12_01, tz)
    /\ out.list[1].end.ts > Midnight(D_2021_12_01, tz)
    /\ StoredRecords[2].start.ts = Midnight(D_2021_12_01, tz) + 1

HoursStep(dr) ==
    /\ out'.op = "hours"
    /\ main(TRUE, FALSE, FALSE, FALSE, dr)

\* the seconds between start and end of the first n stored records whose
\* start lies in the range of dr
RECURSIVE SecondsIn(_, _)
SecondsIn(dr, n) ==
    IF n = 0 THEN 0
    ELSE SecondsIn(dr, n - 1)
         + (IF InArgRange(dr, StoredRecords[n].start.ts)
            THEN StoredRecords[n].end.ts - StoredRecords[n].start.ts
            ELSE 0)

\* C15: report hours gives the sum of end - start (whole seconds, over
\* 3600) of the closed records the range includes; the total is a function
\* of the log alone, so an open session adds nothing, and an empty log
\* gives zero.
C15_TotalHours ==
    [][\A dr \in RangeArgs :
          HoursStep(dr) =>
              /\ out'.result = "total hours"
              /\ out'.value = SecondsIn(dr, Len(log))
              /\ (log = <<>> => out'.value = 0)]_vars

\* report hours gave a non-zero total while a session was open
C15_Witness ==
    /\ out.op = "hours"
    /\ out.result = "total hours"
    /\ out.value > 0
    /\ log # <<>>
    /\ has_open_session(dir)

\* C16: end_session is atomic: a failed append leaves the marker, a run
\* that stopped leaves no marker whose record is already in the log, and no
\* retry appends an interval a second time.
C16_EndSessionAtomic ==
    /\ out.result = "StorageIOError" => has_open_session(dir)
    /\ pc[1] = "stopped" => ~has_open_session(dir)
    /\ res[1] # "again"

\* C17: the log is append-only: every step leaves the records the log has
\* in place and unchanged, so the log of a state is a prefix of the log of
\* every later state and its length never decreases.
C17_LogAppendOnly ==
    [][/\ Len(log') >= Len(log)
       /\ SubSeq(log', 1, Len(log)) = log]_vars

\* a second record was appended after the first, and a later session was
\* discarded with both records in the log
C17_Witness ==
    /\ Len(log) = 2
    /\ log[1] # log[2]
    /\ out.result = "discarded"
    /\ ~has_open_session(dir)

\* C18: the log is in chronological order: of two consecutive records the
\* first starts no later than the second, and indeed ends no later than
\* the second starts.
C18_Chronological ==
    \A i \in 1..(Len(log) - 1) :
        /\ StoredRecords[i].start.ts <= StoredRecords[i + 1].start.ts
        /\ StoredRecords[i].end.ts <= StoredRecords[i + 1].start.ts

ReportOps == {"hours", "start", "times"}

\* a run of main that selects a report operation
ReportStep ==
    /\ out'.op \in ReportOps
    /\ \E dr \in InvocationRanges :
          main(out'.op = "hours", out'.op = "start", out'.op = "times",
               FALSE, dr)

\* C19: report hours, report start and list times change neither the
\* marker (presence and start instant) nor the log, with and without an
\* open session; report start without an open session says "no active
\* session" and creates none.
C19_ReportsReadOnly ==
    [][ReportStep =>
          /\ dir' = dir
          /\ log' = log
          /\ (out'.op = "start" /\ out'.result # "panic"
                 /\ ~has_open_session(dir)) =>
                 /\ out'.result = "no active session"
                 /\ ~has_open_session(dir')]_vars

\* report start ran without an open session, after a session was recorded
C19_Witness ==
    /\ out.op = "start"
    /\ out.result = "no active session"
    /\ ~has_open_session(dir)
    /\ log # <<>>

Operations == {"hours", "start", "times", "delete", "toggle"}

\* the fixed priority: an operation is selected when its flag is given and
\* no flag before it is; the toggle when no flag is given
Selected(op, h, s, t, x) ==
    \/ op = "hours" /\ h
    \/ op = "start" /\ ~h /\ s
    \/ op = "times" /\ ~h /\ ~s /\ t
    \/ op = "delete" /\ ~h /\ ~s /\ ~t /\ x
    \/ op = "toggle" /\ ~h /\ ~s /\ ~t /\ ~x

\* the operation the priority selects for the flags
ByPriority(h, s, t, x) ==
    CHOOSE op \in Operations : Selected(op, h, s, t, x)

\* C20: whatever flags are given together, a run executes exactly one
\* operation, the first given in the order hours, start, times, delete, and
\* the toggle only without any flag: in every state the flags select one
\* operation and call what that operation alone calls, every run reports
\* the operation the priority selects, and a run with a report flag leaves
\* marker and log alone.
C20_OneOperationByPriority ==
    /\ [](\A h, s, t, x \in BOOLEAN :
             /\ Cardinality({op \in Operations :
                                 Selected(op, h, s, t, x)}) = 1
             /\ Operation(h, s, t, x) = ByPriority(h, s, t, x)
             /\ Dispatch(Operation(h, s, t, x), dir, log, NoRange, clock, tz)
                  = Dispatch(ByPriority(h, s, t, x), dir, log, NoRange,
                             clock, tz))
    /\ [][\A h, s, t, x \in BOOLEAN :
             /\ (out'.op = Operation(h, s, t, x)
                   /\ ~Selected(out'.op, h, s, t, x)) =>
                      ~main(h, s, t, x, None)
             /\ ((dir' # dir \/ log' # log) /\ (h \/ s \/ t)
                   /\ out'.op = Operation(h, s, t, x)) =>
                      ~main(h, s, t, x, None)]_vars

\* list times was selected while a session was open, and the session is
\* still open
C20_Witness ==
    /\ out.op = "times"
    /\ out.result = "times"
    /\ has_open_session(dir)
    /\ Len(log) = 1

====
